---------------------------- MODULE Spec2Model ----------------------------
(***************************************************************************)
(* RadixEngineToolkit: the host-side bridge that calls functions exported  *)
(* by the Radix Engine Toolkit WebAssembly module through null-terminated *)
(* UTF-8 JSON strings placed in the module's linear memory.               *)
(*                                                                         *)
(* Two builds of the class are in the repository.  src/src/main.ts (and    *)
(* its compiled form, src/unnamed/part_000 lines 218-431) reads the        *)
(* manifest from one path of the response; the compiled build in           *)
(* src/unnamed/part_000 lines 1-216 tries three paths joined by ||.  The   *)
(* other methods are the same in both.  The variable build says which one  *)
(* is running.                                                             *)
(*                                                                         *)
(* Strings are sequences of UTF-16 code units, byte arrays are sequences   *)
(* of numbers in 0..255, and a JavaScript value is a record [t, v] whose   *)
(* tag t is its type and whose v is a sequence holding its content.        *)
(***************************************************************************)
EXTENDS Integers, Sequences, FiniteSets, TLC

VARIABLES
    build,            \* which build of the class runs: "main_ts" or "part_000"
    internalFFI,      \* the names exported by the instance the class was constructed over
    buffer,           \* which ArrayBuffer internalFFI.memory.buffer is: the number of times the memory grew
    viewBuffer,       \* view.buffer: the ArrayBuffer under the Uint8Array last created; NoView before the first
    memory,           \* internalFFI.memory.buffer: the guest's linear memory, byte i at memory[i + 1]
    live,             \* the guest allocator's state: the pointers allocated and not yet freed
    pc,               \* the position of the host in manifestStringFromCompiledIntent / callWasmFunction
    compiledIntent,   \* the argument of manifestStringFromCompiledIntent
    request,          \* the object handed to writeObjectToMemory
    encoded,          \* nullTerminatedUtf8EncodedString of writeStringToMemory
    capacity,         \* the argument of the last call of toolkit_alloc; 0 before it
    serializedObject, \* readObjectFromMemory's local: the text read from memory
    requestPointer,   \* callWasmFunction's local; NoPointer until assigned
    responsePointer,  \* callWasmFunction's local; NoPointer until assigned
    response,         \* callWasmFunction's local: the deserialized response
    outcome,          \* how the call of manifestStringFromCompiledIntent ended
    events,           \* the guest calls and memory accesses of the current cycle, in order
    doubleFree,       \* toolkit_free_c_string was called on a pointer that was not live
    cycles            \* the number of calls of manifestStringFromCompiledIntent started

vars == <<build, internalFFI, buffer, viewBuffer, memory, live, pc, compiledIntent, request, encoded, capacity,
          serializedObject, requestPointer, responsePointer, response, outcome,
          events, doubleFree, cycles>>

-----------------------------------------------------------------------------
(* Bounds of the model. *)

\* The number of calls of manifestStringFromCompiledIntent in one behaviour.
MaxCycles == 2

\* The size of the guest's linear memory in bytes.
MemSize == 360

\* The guest allocator hands out regions of this many bytes.
SlotSize == 176

\* The number of times the guest grows its memory in one behaviour.
MaxGrows == 2

\* The number of bytes by which the memory grows.
PageSize == 8

-----------------------------------------------------------------------------
(* JavaScript values. *)

JUndefined == [t |-> "undefined", v |-> <<>>]
JNull == [t |-> "null", v |-> <<>>]
JBoolean(b) == [t |-> "boolean", v |-> <<b>>]
JNumber(n) == [t |-> "number", v |-> <<n>>]
JString(s) == [t |-> "string", v |-> s]
JArray(items) == [t |-> "array", v |-> items]
\* members: a sequence of [k |-> key, val |-> value], in property order
JObject(members) == [t |-> "object", v |-> members]

\* The texts the code names, as code units.
K_signed_intent == <<115, 105, 103, 110, 101, 100, 95, 105, 110, 116, 101, 110, 116>>
K_intent == <<105, 110, 116, 101, 110, 116>>
K_manifest == <<109, 97, 110, 105, 102, 101, 115, 116>>
K_instructions == <<105, 110, 115, 116, 114, 117, 99, 116, 105, 111, 110, 115>>
K_value == <<118, 97, 108, 117, 101>>
K_compiled_unknown_intent ==
    <<99, 111, 109, 112, 105, 108, 101, 100, 95, 117, 110, 107, 110, 111, 119,
      110, 95, 105, 110, 116, 101, 110, 116>>
K_manifest_instructions_output_format ==
    <<109, 97, 110, 105, 102, 101, 115, 116, 95, 105, 110, 115, 116, 114, 117,
      99, 116, 105, 111, 110, 115, 95, 111, 117, 116, 112, 117, 116, 95, 102,
      111, 114, 109, 97, 116>>
S_String == <<83, 116, 114, 105, 110, 103>>

-----------------------------------------------------------------------------
(* Sequences are taken apart by halving, which keeps the evaluation of the  *)
(* operators below shallow.                                                 *)

\* pieces[lo] \o ... \o pieces[hi]
RECURSIVE FlattenRange(_, _, _)
FlattenRange(pieces, lo, hi) ==
    IF lo > hi THEN <<>>
    ELSE IF lo = hi THEN pieces[lo]
    ELSE LET mid == (lo + hi) \div 2
         IN  FlattenRange(pieces, lo, mid) \o FlattenRange(pieces, mid + 1, hi)

Flatten(pieces) == FlattenRange(pieces, 1, Len(pieces))

\* the least index in lo..hi whose flag is TRUE, or 0
RECURSIVE FirstTrue(_, _, _)
FirstTrue(flags, lo, hi) ==
    IF lo > hi THEN 0
    ELSE IF lo = hi THEN (IF flags[lo] THEN lo ELSE 0)
    ELSE LET mid == (lo + hi) \div 2
             l == FirstTrue(flags, lo, mid)
         IN  IF l # 0 THEN l ELSE FirstTrue(flags, mid + 1, hi)

-----------------------------------------------------------------------------
(* new TextDecoder().decode(bytes): the WHATWG UTF-8 decoder, not fatal, so *)
(* an ill-formed sequence decodes to U+FFFD; a leading byte order mark is   *)
(* dropped; a code point above U+FFFF becomes a surrogate pair.  The        *)
(* decoder reads a lead byte and then the continuation bytes it accepts; a  *)
(* byte it does not accept ends the sequence with U+FFFD and is read again  *)
(* as the start of the next one.  So what a byte yields is decided by the   *)
(* three bytes before it and the three after it.                            *)

CodeUnits(cp) ==
    IF cp > 65535
    THEN <<55296 + ((cp - 65536) \div 1024), 56320 + ((cp - 65536) % 1024)>>
    ELSE <<cp>>

\* "bytes needed" after the lead byte b; 0 when b is no lead byte
Utf8Needed(b) ==
    IF b >= 194 /\ b <= 223 THEN 1
    ELSE IF b >= 224 /\ b <= 239 THEN 2
    ELSE IF b >= 240 /\ b <= 244 THEN 3
    ELSE 0

\* the decoder, having read the lead byte at j, accepts the byte at j + k
Utf8Accepts(bytes, j, k) ==
    /\ j + k <= Len(bytes)
    /\ LET b == bytes[j]
           lower == IF k = 1 /\ b = 224 THEN 160
                    ELSE IF k = 1 /\ b = 240 THEN 144 ELSE 128
           upper == IF k = 1 /\ b = 237 THEN 159
                    ELSE IF k = 1 /\ b = 244 THEN 143 ELSE 191
       IN  bytes[j + k] >= lower /\ bytes[j + k] <= upper

\* the byte at i was read as a continuation byte of an earlier lead byte
Utf8Consumed(bytes, i) ==
    \E k \in 1..3 :
        /\ i - k >= 1
        /\ Utf8Needed(bytes[i - k]) >= k
        /\ \A m \in 1..k : Utf8Accepts(bytes, i - k, m)

\* the code units the decoder emits for the sequence that starts at i
Utf8Decode(bytes, i) ==
    LET b == bytes[i]
        needed == Utf8Needed(b)
    IN  IF Utf8Consumed(bytes, i) THEN <<>>
        ELSE IF b <= 127 THEN <<b>>
        ELSE IF needed = 0 THEN <<65533>>
        ELSE IF \E m \in 1..needed : ~Utf8Accepts(bytes, i, m) THEN <<65533>>
        ELSE IF needed = 1 THEN <<(b % 32) * 64 + (bytes[i + 1] % 64)>>
        ELSE IF needed = 2
             THEN <<(b % 16) * 4096 + (bytes[i + 1] % 64) * 64 + (bytes[i + 2] % 64)>>
        ELSE CodeUnits((b % 8) * 262144 + (bytes[i + 1] % 64) * 4096
                       + (bytes[i + 2] % 64) * 64 + (bytes[i + 3] % 64))

TextDecoderDecode(bytes) ==
    LET s == Flatten([i \in 1..Len(bytes) |-> Utf8Decode(bytes, i)])
    IN  IF Len(s) > 0 /\ s[1] = 65279 THEN Tail(s) ELSE s

-----------------------------------------------------------------------------
(* JSON.parse(text).  Numbers are modelled for the integer form of the     *)
(* grammar (a sign, then 0 or a digit string without a leading 0); the     *)
(* texts of this model hold no fraction or exponent.                        *)
(* A parse step yields [ok, val, next]: next is the index after the value.  *)

ParseFail == [ok |-> FALSE, val |-> JUndefined, next |-> 0]
Parsed(val, next) == [ok |-> TRUE, val |-> val, next |-> next]

IsDigit(c) == c >= 48 /\ c <= 57
IsHex(c) == IsDigit(c) \/ (c >= 97 /\ c <= 102) \/ (c >= 65 /\ c <= 70)
HexVal(c) == IF IsDigit(c) THEN c - 48 ELSE IF c >= 97 THEN c - 87 ELSE c - 55

RECURSIVE SkipWs(_, _)
SkipWs(s, i) ==
    IF i <= Len(s) /\ s[i] \in {32, 9, 10, 13} THEN SkipWs(s, i + 1) ELSE i

\* the character an escape \c stands for; 0 when \c is no escape
Unescape(c) ==
    CASE c = 34 -> 34 [] c = 92 -> 92 [] c = 47 -> 47 [] c = 98 -> 8
      [] c = 102 -> 12 [] c = 110 -> 10 [] c = 114 -> 13 [] c = 116 -> 9
      [] OTHER -> 0

\* the number of backslashes in a row that end at index k, from index i on
RECURSIVE BackslashRun(_, _, _)
BackslashRun(s, i, k) ==
    IF k < i \/ s[k] # 92 THEN 0 ELSE 1 + BackslashRun(s, i, k - 1)

\* the backslash at k starts an escape: an even number of them precede it
EscapeStart(s, i, k) == k >= i /\ s[k] = 92 /\ BackslashRun(s, i, k - 1) % 2 = 0

\* the character at k belongs to an escape that starts before it
Escaped(s, i, k) ==
    \/ EscapeStart(s, i, k - 1)
    \/ \E d \in 2..5 : EscapeStart(s, i, k - d) /\ s[k - d + 1] = 117

\* what the character at k of a string that ends before index j stands
\* for; <<0 - 1>> when it is not allowed there
StringChar(s, i, j, k) ==
    IF Escaped(s, i, k) THEN <<>>
    ELSE IF s[k] < 32 THEN <<0 - 1>>
    ELSE IF s[k] # 92 THEN <<s[k]>>
    ELSE IF Unescape(s[k + 1]) # 0 THEN <<Unescape(s[k + 1])>>
    ELSE IF s[k + 1] = 117 /\ k + 5 < j /\ \A d \in 2..5 : IsHex(s[k + d])
         THEN <<HexVal(s[k + 2]) * 4096 + HexVal(s[k + 3]) * 256
                + HexVal(s[k + 4]) * 16 + HexVal(s[k + 5])>>
    ELSE <<0 - 1>>

\* the string whose opening quote is before index i: it ends at the first
\* quote that no backslash escapes
ScanString(s, i) ==
    LET j == FirstTrue([k \in 1..Len(s) |->
                           k >= i /\ s[k] = 34 /\ BackslashRun(s, i, k - 1) % 2 = 0],
                       i, Len(s))
    IN  IF j = 0 THEN ParseFail
        ELSE LET chars == [k \in 1..(j - i) |-> StringChar(s, i, j, i + k - 1)]
             IN  IF \E k \in 1..(j - i) : chars[k] = <<0 - 1>> THEN ParseFail
                 ELSE Parsed(Flatten(chars), j + 1)

RECURSIVE ScanDigits(_, _, _)
ScanDigits(s, i, n) ==
    IF i <= Len(s) /\ IsDigit(s[i])
    THEN ScanDigits(s, i + 1, n * 10 + (s[i] - 48))
    ELSE Parsed(n, i)

\* the number starting at index i
ScanNumber(s, i) ==
    LET neg == s[i] = 45
        j == IF neg THEN i + 1 ELSE i
    IN  IF j > Len(s) \/ ~IsDigit(s[j]) THEN ParseFail
        ELSE LET d == IF s[j] = 48 THEN Parsed(0, j + 1) ELSE ScanDigits(s, j, 0)
             IN  Parsed(JNumber(IF neg THEN 0 - d.val ELSE d.val), d.next)

StartsWith(s, i, word) ==
    /\ i + Len(word) - 1 <= Len(s)
    /\ \A k \in 1..Len(word) : s[i + k - 1] = word[k]

\* the members with key set to val: a repeated key keeps its place and
\* takes the later value
RECURSIVE SetMember(_, _, _)
SetMember(members, key, val) ==
    IF members = <<>> THEN <<[k |-> key, val |-> val]>>
    ELSE IF Head(members).k = key
         THEN <<[k |-> key, val |-> val]>> \o Tail(members)
         ELSE <<Head(members)>> \o SetMember(Tail(members), key, val)

RECURSIVE ParseValue(_, _), ParseMembers(_, _, _), ParseElements(_, _, _)
ParseValue(s, i0) ==
    LET i == SkipWs(s, i0) IN
    IF i > Len(s) THEN ParseFail
    ELSE IF s[i] = 123
         THEN LET j == SkipWs(s, i + 1) IN
              IF j <= Len(s) /\ s[j] = 125 THEN Parsed(JObject(<<>>), j + 1)
              ELSE ParseMembers(s, j, <<>>)
    ELSE IF s[i] = 91
         THEN LET j == SkipWs(s, i + 1) IN
              IF j <= Len(s) /\ s[j] = 93 THEN Parsed(JArray(<<>>), j + 1)
              ELSE ParseElements(s, j, <<>>)
    ELSE IF s[i] = 34
         THEN LET r == ScanString(s, i + 1) IN
              IF r.ok THEN Parsed(JString(r.val), r.next) ELSE ParseFail
    ELSE IF StartsWith(s, i, <<116, 114, 117, 101>>)
         THEN Parsed(JBoolean(TRUE), i + 4)
    ELSE IF StartsWith(s, i, <<102, 97, 108, 115, 101>>)
         THEN Parsed(JBoolean(FALSE), i + 5)
    ELSE IF StartsWith(s, i, <<110, 117, 108, 108>>)
         THEN Parsed(JNull, i + 4)
    ELSE IF s[i] = 45 \/ IsDigit(s[i]) THEN ScanNumber(s, i)
    ELSE ParseFail

ParseMembers(s, i0, acc) ==
    LET i == SkipWs(s, i0) IN
    IF i > Len(s) \/ s[i] # 34 THEN ParseFail
    ELSE LET key == ScanString(s, i + 1) IN
         IF ~key.ok THEN ParseFail
         ELSE LET c == SkipWs(s, key.next) IN
              IF c > Len(s) \/ s[c] # 58 THEN ParseFail
              ELSE LET val == ParseValue(s, c + 1) IN
                   IF ~val.ok THEN ParseFail
                   ELSE LET e == SkipWs(s, val.next)
                            acc2 == SetMember(acc, key.val, val.val)
                        IN  IF e > Len(s) THEN ParseFail
                            ELSE IF s[e] = 44 THEN ParseMembers(s, e + 1, acc2)
                            ELSE IF s[e] = 125 THEN Parsed(JObject(acc2), e + 1)
                            ELSE ParseFail

ParseElements(s, i0, acc) ==
    LET val == ParseValue(s, i0) IN
    IF ~val.ok THEN ParseFail
    ELSE LET e == SkipWs(s, val.next)
             acc2 == Append(acc, val.val)
         IN  IF e > Len(s) THEN ParseFail
             ELSE IF s[e] = 44 THEN ParseElements(s, e + 1, acc2)
             ELSE IF s[e] = 93 THEN Parsed(JArray(acc2), e + 1)
             ELSE ParseFail

\* deserializeString: [ok |-> TRUE, val] or, when JSON.parse throws a
\* SyntaxError, [ok |-> FALSE]
deserializeString(string) ==
    LET r == ParseValue(string, 1) IN
    IF r.ok /\ SkipWs(string, r.next) = Len(string) + 1
    THEN [ok |-> TRUE, val |-> r.val]
    ELSE [ok |-> FALSE, val |-> JUndefined]

-----------------------------------------------------------------------------
(* new TextEncoder().encode(str): UTF-8, a lone surrogate encoded as U+FFFD. *)

IsHighSurrogate(c) == c >= 55296 /\ c <= 56319
IsLowSurrogate(c) == c >= 56320 /\ c <= 57343

Utf8Bytes(cp) ==
    IF cp < 128 THEN <<cp>>
    ELSE IF cp < 2048 THEN <<192 + (cp \div 64), 128 + (cp % 64)>>
    ELSE IF cp < 65536
         THEN <<224 + (cp \div 4096), 128 + ((cp \div 64) % 64), 128 + (cp % 64)>>
    ELSE <<240 + (cp \div 262144), 128 + ((cp \div 4096) % 64),
           128 + ((cp \div 64) % 64), 128 + (cp % 64)>>

\* the bytes for the code unit at i: a surrogate pair is encoded at its
\* first unit
EncodeUnit(str, i) ==
    LET c == str[i] IN
    IF IsLowSurrogate(c) /\ i > 1 /\ IsHighSurrogate(str[i - 1]) THEN <<>>
    ELSE IF IsHighSurrogate(c) /\ i < Len(str) /\ IsLowSurrogate(str[i + 1])
         THEN Utf8Bytes(65536 + (c - 55296) * 1024 + (str[i + 1] - 56320))
    ELSE IF IsHighSurrogate(c) \/ IsLowSurrogate(c) THEN <<239, 191, 189>>
    ELSE Utf8Bytes(c)

TextEncoderEncode(str) == Flatten([i \in 1..Len(str) |-> EncodeUnit(str, i)])

-----------------------------------------------------------------------------
(* Buffer.from(bytes).toString("hex"): two lowercase digits for each byte. *)

\* toString("hex") with capital digits
HexDigit_Upper(n) == IF n < 10 THEN 48 + n ELSE 55 + n

HexDigit(n) == IF n < 10 THEN 48 + n ELSE 87 + n

toHex(bytes) ==
    Flatten([i \in 1..Len(bytes) |->
                <<HexDigit(bytes[i] \div 16), HexDigit(bytes[i] % 16)>>])

-----------------------------------------------------------------------------
(* JSON.stringify(value), for a value other than undefined.                 *)

RECURSIVE Digits(_)
Digits(n) == IF n < 10 THEN <<48 + n>> ELSE Append(Digits(n \div 10), 48 + (n % 10))

\* a control character written as it is, without an escape
UnicodeEscape_Raw(c) == <<c>>

\* \uXXXX with lowercase digits
UnicodeEscape(c) ==
    <<92, 117, HexDigit(c \div 4096), HexDigit((c \div 256) % 16),
      HexDigit((c \div 16) % 16), HexDigit(c % 16)>>

\* QuoteUnit without escapes: the code unit as it is
QuoteUnit_Raw(str, i) == <<str[i]>>

\* the characters written for the code unit at i
QuoteUnit(str, i) ==
    LET c == str[i]
        paired == \/ IsHighSurrogate(c) /\ i < Len(str) /\ IsLowSurrogate(str[i + 1])
                  \/ IsLowSurrogate(c) /\ i > 1 /\ IsHighSurrogate(str[i - 1])
    IN  CASE c = 8 -> <<92, 98>> [] c = 9 -> <<92, 116>>
          [] c = 10 -> <<92, 110>> [] c = 12 -> <<92, 102>>
          [] c = 13 -> <<92, 114>> [] c = 34 -> <<92, 34>>
          [] c = 92 -> <<92, 92>>
          [] OTHER -> IF c < 32 \/ ((IsHighSurrogate(c) \/ IsLowSurrogate(c)) /\ ~paired)
                      THEN UnicodeEscape(c) ELSE <<c>>

QuoteChars(str) == Flatten([i \in 1..Len(str) |-> QuoteUnit(str, i)])

QuoteJSONString(str) == <<34>> \o QuoteChars(str) \o <<34>>

RECURSIVE JSONStringify(_), StringifyMembers(_, _), StringifyElements(_)
JSONStringify(value) ==
    CASE value.t = "null" -> <<110, 117, 108, 108>>
      [] value.t = "boolean" ->
            IF value.v[1] THEN <<116, 114, 117, 101>> ELSE <<102, 97, 108, 115, 101>>
      [] value.t = "number" ->
            IF value.v[1] < 0 THEN <<45>> \o Digits(0 - value.v[1]) ELSE Digits(value.v[1])
      [] value.t = "string" -> QuoteJSONString(value.v)
      [] value.t = "array" -> <<91>> \o StringifyElements(value.v) \o <<93>>
      [] value.t = "object" -> <<123>> \o StringifyMembers(value.v, TRUE) \o <<125>>

\* a member whose value is undefined is left out
StringifyMembers(members, first) ==
    IF members = <<>> THEN <<>>
    ELSE IF Head(members).val.t = "undefined"
         THEN StringifyMembers(Tail(members), first)
    ELSE (IF first THEN <<>> ELSE <<44>>)
         \o QuoteJSONString(Head(members).k) \o <<58>> \o JSONStringify(Head(members).val)
         \o StringifyMembers(Tail(members), FALSE)

\* an element that is undefined is written as null
StringifyElements(items) ==
    IF items = <<>> THEN <<>>
    ELSE (IF Head(items).t = "undefined" THEN <<110, 117, 108, 108>>
          ELSE JSONStringify(Head(items)))
         \o (IF Len(items) > 1 THEN <<44>> ELSE <<>>)
         \o StringifyElements(Tail(items))

serializeObject(object) == JSONStringify(object)

-----------------------------------------------------------------------------
(* The linear memory: offset p of the buffer is memory[p + 1].               *)

NoPointer == 0 - 1

\* view.set on a view that starts one byte late
WriteBytes_Shifted(mem, pointer, bytes) ==
    [i \in 1..Len(mem) |->
        IF i > pointer + 1 /\ i <= pointer + 1 + Len(bytes)
        THEN bytes[i - pointer - 1] ELSE mem[i]]

\* view.set after the view was cleared: every byte from the pointer to the
\* end of the memory is written
WriteBytes_Clearing(mem, pointer, bytes) ==
    [i \in 1..Len(mem) |->
        IF i > pointer /\ i <= pointer + Len(bytes) THEN bytes[i - pointer]
        ELSE IF i > pointer THEN 0 ELSE mem[i]]

\* view.set(bytes) on a view that starts at offset pointer
WriteBytes(mem, pointer, bytes) ==
    [i \in 1..Len(mem) |->
        IF i > pointer /\ i <= pointer + Len(bytes) THEN bytes[i - pointer] ELSE mem[i]]

\* findIndex counting from one: the length found takes in the zero byte
findIndex_OffByOne(view) ==
    FirstTrue([i \in 1..Len(view) |-> view[i] = 0], 1, Len(view))

\* view.findIndex((byte) => byte === 0): the index of the first zero, or -1
findIndex(view) ==
    FirstTrue([i \in 1..Len(view) |-> view[i] = 0], 1, Len(view)) - 1

Ok(val) == [ok |-> TRUE, val |-> val, error |-> "none"]
Err(error) == [ok |-> FALSE, val |-> JUndefined, error |-> error]

\* readStringFromMemory taking the end of the memory for the terminator
readStringFromMemory_ToEnd(mem, pointer) ==
    IF pointer > Len(mem) THEN Err("RangeError")
    ELSE LET seen == SubSeq(mem, pointer + 1, Len(mem))
             length == IF findIndex(seen) < 0 THEN Len(seen) ELSE findIndex(seen)
         IN  Ok(TextDecoderDecode(SubSeq(mem, pointer + 1, pointer + length)))

\* new Uint8Array(buffer, pointer) throws a RangeError when pointer is past
\* the buffer, and new Uint8Array(buffer, pointer, -1) always does
readStringFromMemory(mem, pointer) ==
    IF pointer > Len(mem) THEN Err("RangeError")
    ELSE LET view == SubSeq(mem, pointer + 1, Len(mem))
             length == findIndex(view)
         IN  IF length < 0 THEN Err("RangeError")
             ELSE Ok(TextDecoderDecode(SubSeq(mem, pointer + 1, pointer + length)))

\* readObjectFromMemory with the parse error caught and undefined returned
readObjectFromMemory_Swallow(mem, pointer) ==
    LET read == readStringFromMemory(mem, pointer) IN
    IF ~read.ok THEN read
    ELSE LET parsed == deserializeString(read.val) IN
         IF parsed.ok THEN Ok(parsed.val) ELSE Ok(JUndefined)

readObjectFromMemory(mem, pointer) ==
    LET read == readStringFromMemory(mem, pointer) IN
    IF ~read.ok THEN read
    ELSE LET parsed == deserializeString(read.val) IN
         IF parsed.ok THEN Ok(parsed.val) ELSE Err("SyntaxError")

-----------------------------------------------------------------------------
(* manifestStringFromCompiledIntent: the request and the extraction.        *)

Request(intent) ==
    JObject(<<[k |-> K_compiled_unknown_intent, val |-> JString(toHex(intent))],
              [k |-> K_manifest_instructions_output_format, val |-> JString(S_String)]>>)

IsNullish(x) == x.t \in {"undefined", "null"}

\* x[key] for x neither null nor undefined; the keys read here are no
\* property of a string, a number, a boolean or an array
RECURSIVE Lookup(_, _)
Lookup(members, key) ==
    IF members = <<>> THEN JUndefined
    ELSE IF Head(members).k = key THEN Head(members).val
    ELSE Lookup(Tail(members), key)

Get(x, key) == IF x.t = "object" THEN Lookup(x.v, key) ELSE JUndefined

\* x?.[k1]?.[k2]...
RECURSIVE OptionalChain(_, _)
OptionalChain(x, keys) ==
    IF keys = <<>> THEN x
    ELSE IF IsNullish(x) THEN JUndefined
    ELSE OptionalChain(Get(x, Head(keys)), Tail(keys))

Truthy(x) ==
    CASE x.t \in {"undefined", "null"} -> FALSE
      [] x.t = "boolean" -> x.v[1]
      [] x.t = "number" -> x.v[1] # 0
      [] x.t = "string" -> x.v # <<>>
      [] OTHER -> TRUE

\* a || b
Or(a, b) == IF Truthy(a) THEN a ELSE b

\* src/src/main.ts line 57: response["signed_intent"] is read without ?.
ExtractMainTs(resp) ==
    IF IsNullish(resp) THEN Err("TypeError")
    ELSE Ok(OptionalChain(Get(resp, K_signed_intent),
                          <<K_intent, K_manifest, K_instructions, K_value>>))

\* src/unnamed/part_000 lines 80-82
ExtractPart000(resp) ==
    Ok(Or(OptionalChain(resp, <<K_signed_intent, K_intent, K_manifest, K_instructions, K_value>>),
       Or(OptionalChain(resp, <<K_intent, K_manifest, K_instructions, K_value>>),
          OptionalChain(resp, <<K_manifest, K_instructions, K_value>>))))

Builds == {"main_ts", "part_000"}

Extract(b, resp) == IF b = "main_ts" THEN ExtractMainTs(resp) ELSE ExtractPart000(resp)

-----------------------------------------------------------------------------
(* The guest: the exports of RadixEngineToolkitFFI.  Its allocator hands    *)
(* out the regions starting at Slots; the domain operation ignores its      *)
(* request and answers with one of a set of texts, in a free region or in   *)
(* place of the request.                                                    *)

Slots == {8, 184}

\* the exports the class uses: the fields of RadixEngineToolkitFFI
Exports ==
    {"memory", "decompile_unknown_transaction_intent", "toolkit_alloc",
     "toolkit_free_c_string"}

\* no Uint8Array was created yet
NoView == 0 - 1

Intents == {<<>>, <<0, 171>>, <<9, 255, 160>>}

Member(key, val) == [k |-> key, val |-> val]

\* {"manifest":{"instructions":{"value":leaf}}}
ManifestObject(leaf) ==
    JObject(<<Member(K_manifest,
                JObject(<<Member(K_instructions, JObject(<<Member(K_value, leaf)>>))>>))>>)

\* the three shapes of a response; a leaf of undefined leaves the shape out
ShapedResponse(l1, l2, l3) ==
    JObject(<<Member(K_signed_intent,
                     IF l1.t = "undefined" THEN JUndefined
                     ELSE JObject(<<Member(K_intent, ManifestObject(l1))>>)),
              Member(K_intent,
                     IF l2.t = "undefined" THEN JUndefined ELSE ManifestObject(l2)),
              Member(K_manifest,
                     IF l3.t = "undefined" THEN JUndefined
                     ELSE JObject(<<Member(K_instructions, JObject(<<Member(K_value, l3)>>))>>))>>)

\* the bytes the guest writes for a value
GuestBytes(value) == TextEncoderEncode(JSONStringify(value))

FooObject == JObject(<<Member(<<102, 111, 111>>, JNumber(1))>>)

\* {  and the empty text: not JSON
MalformedTexts == {<<123>>, <<>>}

\* "\xFF": a JSON string holding a byte that is not UTF-8
IllFormedUtf8 == <<34, 255, 34>>

ResponseTexts ==
    {GuestBytes(ShapedResponse(JString(<<65>>), JUndefined, JUndefined)),
     GuestBytes(FooObject), GuestBytes(JNull), IllFormedUtf8} \cup MalformedTexts

\* the leaf of a path: left out, a text ("A", "B", "C" by path), or empty
Leaves(c) == {JUndefined, JString(<<c>>), JString(<<>>)}

\* every shape of response with those leaves
ShapedTexts ==
    {GuestBytes(ShapedResponse(l1, l2, l3)) :
        l1 \in Leaves(65), l2 \in Leaves(66), l3 \in Leaves(67)}

\* responses that are no object
TopLevelTexts ==
    {GuestBytes(JNull), GuestBytes(JNumber(7)), GuestBytes(JString(<<120>>)),
     GuestBytes(JArray(<<JNumber(1)>>)), GuestBytes(JBoolean(FALSE))}

\* a first path that ends in something other than a text, before a bare
\* path that ends in "C"
OddLeafTexts ==
    {GuestBytes(ShapedResponse(JNull, JUndefined, JString(<<67>>))),
     GuestBytes(ShapedResponse(JNumber(0), JUndefined, JString(<<67>>))),
     GuestBytes(ShapedResponse(JNumber(7), JUndefined, JUndefined)),
     GuestBytes(ShapedResponse(JBoolean(FALSE), JUndefined, JString(<<67>>))),
     GuestBytes(ShapedResponse(JObject(<<>>), JUndefined, JString(<<67>>))),
     \* {"signed_intent":null,"manifest":{"instructions":{"value":"C"}}}
     GuestBytes(JObject(<<Member(K_signed_intent, JNull)>>
                        \o ManifestObject(JString(<<67>>)).v)),
     \* {"signed_intent":{"intent":{"manifest":{"instructions":{}}}},"manifest":...}
     GuestBytes(JObject(<<Member(K_signed_intent,
                          JObject(<<Member(K_intent, JObject(<<Member(K_manifest,
                              JObject(<<Member(K_instructions, JObject(<<>>))>>))>>))>>))>>
                        \o ManifestObject(JString(<<67>>)).v))}

ExtractTexts ==
    ShapedTexts \cup TopLevelTexts \cup OddLeafTexts
    \cup {GuestBytes(FooObject), IllFormedUtf8} \cup MalformedTexts

-----------------------------------------------------------------------------
(* The host: one call of manifestStringFromCompiledIntent.                  *)

NoOutcome == [kind |-> "none", val |-> JUndefined, error |-> "none"]
Returned(val) == [kind |-> "return", val |-> val, error |-> "none"]
Thrown(error) == [kind |-> "throw", val |-> JUndefined, error |-> error]

Event(e, p) == [e |-> e, p |-> p]

\* callWasmFunction with the two releases exchanged
callWasmFunction_ResponseFirst ==
    <<"alloc", "write", "call", "read", "free_response", "free_request", "return">>

\* callWasmFunction without the release of the response
callWasmFunction_NoResponseRelease ==
    <<"alloc", "write", "call", "read", "free_request", "return">>

\* callWasmFunction without the release of the request
callWasmFunction_NoRequestRelease ==
    <<"alloc", "write", "call", "read", "free_response", "return">>

\* callWasmFunction reading the response after the two releases
callWasmFunction_ReadAfterRelease ==
    <<"alloc", "write", "call", "free_request", "free_response", "read", "return">>

\* the statements of callWasmFunction, writeObjectToMemory inlined, in order
callWasmFunction ==
    <<"alloc", "write", "call", "read", "free_request", "free_response", "return">>

RECURSIVE IndexOf(_, _)
IndexOf(seq, x) ==
    IF seq = <<>> THEN 0
    ELSE IF Head(seq) = x THEN 1
    ELSE LET r == IndexOf(Tail(seq), x) IN IF r = 0 THEN 0 ELSE r + 1

\* the statement after step; after the last one the caller goes on
After(step) ==
    LET i == IndexOf(callWasmFunction, step) IN
    IF i < Len(callWasmFunction) THEN callWasmFunction[i + 1] ELSE "extract"

\* writeStringToMemory with the view created before the call of
\* toolkit_alloc
writeStringToMemory_ViewFirst == <<"encode", "view", "alloc", "set">>

\* the statements of writeStringToMemory in order: lines 148, 151, 154, 155
writeStringToMemory == <<"encode", "alloc", "view", "set">>

\* the view that view.set writes through was created before toolkit_alloc
\* was called
ViewBeforeAlloc ==
    IndexOf(writeStringToMemory, "view") < IndexOf(writeStringToMemory, "alloc")

\* memory.grow: the memory is longer by a page of zeros, and its buffer is
\* a new ArrayBuffer; the one before is detached
Grown(mem) == mem \o [i \in 1..PageSize |-> 0]

Init ==
    /\ build \in Builds
    /\ internalFFI = Exports
    /\ buffer = 0
    /\ viewBuffer = NoView
    /\ memory = [i \in 1..MemSize |-> 0]
    /\ live = {}
    /\ pc = "idle"
    /\ compiledIntent = <<>>
    /\ request = JUndefined
    /\ encoded = <<>>
    /\ capacity = 0
    /\ serializedObject = <<>>
    /\ requestPointer = NoPointer
    /\ responsePointer = NoPointer
    /\ response = JUndefined
    /\ outcome = NoOutcome
    /\ events = <<>>
    /\ doubleFree = FALSE
    /\ cycles = 0

\* manifestStringFromCompiledIntent entered while an earlier call of it has
\* not ended
Call_Reentrant(limit) ==
    /\ cycles < limit
    /\ \E intent \in Intents :
          /\ compiledIntent' = intent
          /\ request' = Request(intent)
          /\ encoded' = Append(TextEncoderEncode(serializeObject(Request(intent))), 0)
    /\ pc' = Head(callWasmFunction)
    /\ capacity' = 0
    /\ serializedObject' = <<>>
    /\ requestPointer' = NoPointer
    /\ responsePointer' = NoPointer
    /\ response' = JUndefined
    /\ outcome' = NoOutcome
    /\ events' = <<>>
    /\ cycles' = cycles + 1
    /\ UNCHANGED <<build, internalFFI, buffer, viewBuffer, memory, live, doubleFree>>

\* manifestStringFromCompiledIntent is entered: the request is built,
\* serialized (writeObjectToMemory) and encoded with its terminator
Call(limit) ==
    /\ pc \in {"idle", "done"}
    /\ cycles < limit
    /\ \E intent \in Intents :
          /\ compiledIntent' = intent
          /\ request' = Request(intent)
          /\ encoded' = Append(TextEncoderEncode(serializeObject(Request(intent))), 0)
    /\ pc' = Head(callWasmFunction)
    /\ capacity' = 0
    /\ serializedObject' = <<>>
    /\ requestPointer' = NoPointer
    /\ responsePointer' = NoPointer
    /\ response' = JUndefined
    /\ outcome' = NoOutcome
    /\ events' = <<>>
    /\ cycles' = cycles + 1
    /\ UNCHANGED <<build, internalFFI, buffer, viewBuffer, memory, live, doubleFree>>

\* an exception leaves manifestStringFromCompiledIntent: nothing catches it
Throw(error) ==
    /\ pc' = "done"
    /\ outcome' = Thrown(error)

\* allocateMemory: toolkit_alloc returns a free region, having grown the
\* memory or not
allocateMemory(grows) ==
    /\ pc = "alloc"
    /\ "toolkit_alloc" \in internalFFI
    /\ Len(encoded) <= SlotSize
    /\ \E p \in Slots \ live :
          /\ requestPointer' = p
          /\ live' = live \cup {p}
          /\ events' = Append(events, Event("alloc", p))
    /\ IF grows
       THEN buffer < MaxGrows /\ buffer' = buffer + 1 /\ memory' = Grown(memory)
       ELSE UNCHANGED <<buffer, memory>>
    /\ viewBuffer' = IF ViewBeforeAlloc THEN buffer ELSE viewBuffer
    /\ capacity' = Len(encoded)
    /\ pc' = After("alloc")
    /\ UNCHANGED <<build, internalFFI, compiledIntent, request, encoded,
                   serializedObject, responsePointer, response, outcome,
                   doubleFree, cycles>>

ToolkitAllocReturns == allocateMemory(FALSE)

ToolkitAllocGrows == allocateMemory(TRUE)

\* allocateMemory with the fault of toolkit_alloc caught: the cycle goes on
\* with pointer 0
ToolkitAllocTraps_Continue ==
    /\ pc = "alloc"
    /\ "toolkit_alloc" \in internalFFI
    /\ Slots \ live = {} \/ Len(encoded) > SlotSize
    /\ events' = Append(events, Event("alloc", NoPointer))
    /\ capacity' = Len(encoded)
    /\ requestPointer' = 0
    /\ pc' = After("alloc")
    /\ viewBuffer' = IF ViewBeforeAlloc THEN buffer ELSE viewBuffer
    /\ UNCHANGED <<build, internalFFI, buffer, memory, live, compiledIntent, request, encoded,
                   serializedObject, responsePointer, response, outcome,
                   doubleFree, cycles>>

\* allocateMemory: toolkit_alloc traps, the guest being out of space
ToolkitAllocTraps ==
    /\ pc = "alloc"
    /\ "toolkit_alloc" \in internalFFI
    /\ Slots \ live = {} \/ Len(encoded) > SlotSize
    /\ events' = Append(events, Event("alloc", NoPointer))
    /\ capacity' = Len(encoded)
    /\ Throw("RuntimeError")
    /\ viewBuffer' = IF ViewBeforeAlloc THEN buffer ELSE viewBuffer
    /\ UNCHANGED <<build, internalFFI, buffer, memory, live, compiledIntent, request, encoded,
                   serializedObject, requestPointer,
                   responsePointer, response, doubleFree, cycles>>

\* writeStringToMemory lines 154-155: the view and view.set.  view.set
\* through a view whose buffer is detached throws a TypeError
WriteString ==
    /\ pc = "write"
    /\ "memory" \in internalFFI
    /\ events' = Append(events, Event("write", requestPointer))
    /\ viewBuffer' = IF ViewBeforeAlloc THEN viewBuffer ELSE buffer
    /\ IF viewBuffer' # buffer
       THEN Throw("TypeError") /\ UNCHANGED memory
       ELSE IF Len(encoded) > Len(memory) - requestPointer
       THEN Throw("RangeError") /\ UNCHANGED memory
       ELSE /\ memory' = WriteBytes(memory, requestPointer, encoded)
            /\ pc' = After("write")
            /\ UNCHANGED outcome
    /\ UNCHANGED <<build, internalFFI, buffer, live, compiledIntent, request,
                   encoded, capacity, serializedObject, requestPointer,
                   responsePointer, response, doubleFree, cycles>>

\* wasmFunction(requestPointer) returns a pointer to a response, having
\* grown the memory or not
wasmFunction(texts, grows) ==
    /\ pc = "call"
    /\ "decompile_unknown_transaction_intent" \in internalFFI
    /\ grows => buffer < MaxGrows
    /\ buffer' = IF grows THEN buffer + 1 ELSE buffer
    /\ \E q \in (Slots \ live) \cup {requestPointer}, text \in texts :
          /\ Len(text) < SlotSize
          /\ memory' = WriteBytes(IF grows THEN Grown(memory) ELSE memory,
                                  q, Append(text, 0))
          /\ responsePointer' = q
          /\ live' = live \cup {q}
          /\ events' = events \o <<Event("call", requestPointer), Event("returned", q)>>
    /\ pc' = After("call")
    /\ UNCHANGED <<build, internalFFI, viewBuffer, compiledIntent, request,
                   encoded, capacity, serializedObject, requestPointer, response,
                   outcome, doubleFree, cycles>>

GuestCallReturns(texts) == wasmFunction(texts, FALSE)

GuestCallGrows(texts) == wasmFunction(texts, TRUE)

\* wasmFunction(requestPointer) returns a pointer near the end of the
\* memory, or at its end, to bytes that no zero byte follows
GuestCallReturnsUnterminated ==
    /\ pc = "call"
    /\ "decompile_unknown_transaction_intent" \in internalFFI
    /\ \E q \in {Len(memory) - 2, Len(memory)} :
          /\ memory' = [i \in 1..Len(memory) |-> IF i > q THEN 255 ELSE memory[i]]
          /\ responsePointer' = q
          /\ live' = live \cup {q}
          /\ events' = events \o <<Event("call", requestPointer), Event("returned", q)>>
    /\ pc' = After("call")
    /\ UNCHANGED <<build, internalFFI, buffer, viewBuffer, compiledIntent, request,
                   encoded, capacity, serializedObject, requestPointer, response,
                   outcome, doubleFree, cycles>>

\* wasmFunction(requestPointer) traps
GuestCallTraps ==
    /\ pc = "call"
    /\ "decompile_unknown_transaction_intent" \in internalFFI
    /\ events' = Append(events, Event("call", requestPointer))
    /\ Throw("RuntimeError")
    /\ UNCHANGED <<build, internalFFI, buffer, viewBuffer, memory, live, compiledIntent, request, encoded, capacity,
                   serializedObject, requestPointer,
                   responsePointer, response, doubleFree, cycles>>

\* readObjectFromMemory(responsePointer)
ReadObject ==
    /\ pc = "read"
    /\ "memory" \in internalFFI
    /\ events' = Append(events, Event("read", responsePointer))
    /\ LET text == readStringFromMemory(memory, responsePointer) IN
       serializedObject' = IF text.ok THEN text.val ELSE serializedObject
    /\ LET r == readObjectFromMemory(memory, responsePointer) IN
       IF r.ok
       THEN response' = r.val /\ pc' = After("read") /\ UNCHANGED outcome
       ELSE Throw(r.error) /\ UNCHANGED response
    /\ viewBuffer' = buffer
    /\ UNCHANGED <<build, internalFFI, buffer, memory, live, compiledIntent,
                   request, encoded, capacity, requestPointer, responsePointer,
                   doubleFree, cycles>>

\* deallocateMemory(pointer): toolkit_free_c_string returns
deallocateReturns(step, pointer) ==
    /\ pc = step
    /\ "toolkit_free_c_string" \in internalFFI
    /\ events' = Append(events, Event("free", pointer))
    /\ live' = live \ {pointer}
    /\ doubleFree' = (doubleFree \/ pointer \notin live)
    /\ pc' = After(step)
    /\ UNCHANGED <<build, internalFFI, buffer, viewBuffer, memory, compiledIntent, request, encoded, capacity,
                   serializedObject, requestPointer,
                   responsePointer, response, outcome, cycles>>

\* deallocateMemory(pointer) of a pointer that is not allocated: what the
\* guest does is undefined, and it may trap
deallocateTraps(step, pointer) ==
    /\ pc = step
    /\ "toolkit_free_c_string" \in internalFFI
    /\ pointer \notin live
    /\ events' = Append(events, Event("free", pointer))
    /\ doubleFree' = TRUE
    /\ Throw("RuntimeError")
    /\ UNCHANGED <<build, internalFFI, buffer, viewBuffer, memory, live, compiledIntent, request, encoded, capacity,
                   serializedObject, requestPointer,
                   responsePointer, response, cycles>>

DeallocateRequest == deallocateReturns("free_request", requestPointer)

DeallocateResponse ==
    \/ deallocateReturns("free_response", responsePointer)
    \/ deallocateTraps("free_response", responsePointer)

\* callWasmFunction waiting before its return statement, for ever
Return_Waits ==
    /\ pc = "return"
    /\ UNCHANGED vars

\* callWasmFunction line 89: return response
Return ==
    /\ pc = "return"
    /\ events' = Append(events, Event("return", NoPointer))
    /\ pc' = After("return")
    /\ UNCHANGED <<build, internalFFI, buffer, viewBuffer, memory, live, compiledIntent, request, encoded, capacity,
                   serializedObject, requestPointer,
                   responsePointer, response, outcome, doubleFree, cycles>>

\* the return statement, releasing the response pointer once more on its way
ExtractManifest_Releases ==
    /\ pc = "extract"
    /\ LET r == Extract(build, response) IN
       outcome' = IF r.ok THEN Returned(r.val) ELSE Thrown(r.error)
    /\ events' = Append(events, Event("free", responsePointer))
    /\ live' = live \ {responsePointer}
    /\ pc' = "done"
    /\ UNCHANGED <<build, internalFFI, buffer, viewBuffer, memory, compiledIntent, request, encoded, capacity,
                   serializedObject, requestPointer, responsePointer, response,
                   doubleFree, cycles>>

\* manifestStringFromCompiledIntent: the return statement
ExtractManifest ==
    /\ pc = "extract"
    /\ LET r == Extract(build, response) IN
       outcome' = IF r.ok THEN Returned(r.val) ELSE Thrown(r.error)
    /\ pc' = "done"
    /\ UNCHANGED <<build, internalFFI, buffer, viewBuffer, memory, live, compiledIntent, request, encoded, capacity,
                   serializedObject, requestPointer,
                   responsePointer, response, events, doubleFree, cycles>>

Next ==
    \/ Call(MaxCycles)
    \/ ToolkitAllocReturns
    \/ ToolkitAllocTraps
    \/ WriteString
    \/ GuestCallReturns(ResponseTexts)
    \/ GuestCallReturnsUnterminated
    \/ GuestCallTraps
    \/ ReadObject
    \/ DeallocateRequest
    \/ DeallocateResponse
    \/ Return
    \/ ExtractManifest

Spec == Init /\ [][Next]_vars

\* a statement of the cycle in flight other than the read of the response,
\* or a guest function called by it, comes to its end
StepOfCycle ==
    \/ ToolkitAllocReturns
    \/ ToolkitAllocTraps
    \/ WriteString
    \/ GuestCallReturns(ResponseTexts)
    \/ GuestCallReturnsUnterminated
    \/ GuestCallTraps
    \/ DeallocateRequest
    \/ DeallocateResponse
    \/ Return
    \/ ExtractManifest

\* ENABLED <<ReadObject>>_vars: the step is possible whatever the memory holds
ReadObjectEnabled == pc = "read" /\ "memory" \in internalFFI

\* the host runs each statement to its end, and each guest function that
\* is called returns or traps; the last conjunct is WF_vars(ReadObject) with
\* its enabling condition written out
SpecLive ==
    /\ Spec
    /\ WF_vars(StepOfCycle)
    /\ ([]<>(~ReadObjectEnabled) \/ []<><<ReadObject>>_vars)

\* one call over a memory that the guest grows, in toolkit_alloc or in the
\* operation
NextGrow ==
    \/ Call(1)
    \/ ToolkitAllocReturns
    \/ ToolkitAllocGrows
    \/ WriteString
    \/ GuestCallReturns(ResponseTexts)
    \/ GuestCallGrows(ResponseTexts)
    \/ GuestCallTraps
    \/ ReadObject
    \/ DeallocateRequest
    \/ DeallocateResponse
    \/ Return
    \/ ExtractManifest

SpecGrow == Init /\ [][NextGrow]_vars

\* one call, over every shape of response
NextExtract ==
    \/ Call(1)
    \/ ToolkitAllocReturns
    \/ WriteString
    \/ GuestCallReturns(ExtractTexts)
    \/ GuestCallTraps
    \/ ReadObject
    \/ DeallocateRequest
    \/ DeallocateResponse
    \/ Return
    \/ ExtractManifest

SpecExtract == Init /\ [][NextExtract]_vars

-----------------------------------------------------------------------------
(* writeObjectToMemory followed by readObjectFromMemory of its pointer,     *)
(* with no guest operation between them.                                    *)

\* strings: empty, plain, quote and backslash, control characters, two- and
\* three-byte characters, a surrogate pair, lone surrogates, a byte order
\* mark, the replacement character, the text of an escape, and one with NUL
Strings ==
    {<<>>, <<97>>, <<34, 92>>, <<10, 31, 127>>, <<233, 8364>>, <<55357, 56832>>,
     <<55296>>, <<56320, 97>>, <<65279, 97>>, <<65533>>, <<92, 117, 48, 48, 52, 49>>,
     <<97, 0, 98>>}

\* {"a":[1,{"b":true}],"c":null,"d":-5,"e":false,"f":120}
NestedObject ==
    JObject(<<Member(<<97>>, JArray(<<JNumber(1), JObject(<<Member(<<98>>, JBoolean(TRUE))>>)>>)),
              Member(<<99>>, JNull), Member(<<100>>, JNumber(0 - 5)),
              Member(<<101>>, JBoolean(FALSE)), Member(<<102>>, JNumber(120))>>)

\* the objects handed to writeObjectToMemory: each string as a value, as a
\* key and as an element, and some objects and arrays without strings
Objects ==
    {JObject(<<Member(<<107>>, JString(s))>>) : s \in Strings}
    \cup {JObject(<<Member(s, JNumber(0))>>) : s \in Strings}
    \cup {JArray(<<JString(s), JNull>>) : s \in Strings}
    \cup {JObject(<<>>), JArray(<<>>), JArray(<<JArray(<<>>), JObject(<<>>)>>), NestedObject}

\* what the memory holds before the first write
Garbage == {0, 125}

InitRoundTrip ==
    /\ build \in Builds
    /\ internalFFI = Exports
    /\ buffer = 0
    /\ viewBuffer = NoView
    /\ memory \in {[i \in 1..MemSize |-> b] : b \in Garbage}
    /\ live \in {{}, {CHOOSE p \in Slots : \A q \in Slots : p <= q}}
    /\ pc = "idle"
    /\ compiledIntent = <<>>
    /\ request = JUndefined
    /\ encoded = <<>>
    /\ capacity = 0
    /\ serializedObject = <<>>
    /\ requestPointer = NoPointer
    /\ responsePointer = NoPointer
    /\ response = JUndefined
    /\ outcome = NoOutcome
    /\ events = <<>>
    /\ doubleFree = FALSE
    /\ cycles = 0

\* writeObjectToMemory(obj) is entered: obj is serialized and encoded with
\* its terminator
WriteObject(limit) ==
    /\ pc \in {"idle", "done"}
    /\ cycles < limit
    /\ \E obj \in Objects :
          /\ request' = obj
          /\ encoded' = Append(TextEncoderEncode(serializeObject(obj)), 0)
    /\ pc' = "alloc"
    /\ capacity' = 0
    /\ serializedObject' = <<>>
    /\ requestPointer' = NoPointer
    /\ responsePointer' = NoPointer
    /\ response' = JUndefined
    /\ outcome' = NoOutcome
    /\ events' = <<>>
    /\ cycles' = cycles + 1
    /\ UNCHANGED <<build, internalFFI, buffer, viewBuffer, memory, live, compiledIntent, doubleFree>>

\* writeObjectToMemory has returned its pointer: readObjectFromMemory of it
ReadWritten ==
    /\ pc = After("write")
    /\ "memory" \in internalFFI
    /\ events' = Append(events, Event("read", requestPointer))
    /\ LET text == readStringFromMemory(memory, requestPointer) IN
       serializedObject' = IF text.ok THEN text.val ELSE serializedObject
    /\ LET r == readObjectFromMemory(memory, requestPointer) IN
       IF r.ok
       THEN response' = r.val /\ outcome' = Returned(r.val) /\ pc' = "done"
       ELSE Throw(r.error) /\ UNCHANGED response
    /\ viewBuffer' = buffer
    /\ UNCHANGED <<build, internalFFI, buffer, memory, live, compiledIntent,
                   request, encoded, capacity, requestPointer, responsePointer,
                   doubleFree, cycles>>

NextRoundTrip ==
    \/ WriteObject(MaxCycles)
    \/ ToolkitAllocReturns
    \/ ToolkitAllocTraps
    \/ WriteString
    \/ ReadWritten

SpecRoundTrip == InitRoundTrip /\ [][NextRoundTrip]_vars

-----------------------------------------------------------------------------
(* fromWasmModuleBuffer and the constructor, and a call over an instance   *)
(* that lacks an export.                                                    *)

\* the module images: one that WebAssembly.instantiate rejects, and valid
\* ones with every set of the exports the class uses
Modules ==
    {[valid |-> FALSE, exports |-> {}]}
    \cup {[valid |-> TRUE, exports |-> e] : e \in SUBSET Exports}

\* no instance yet: fromWasmModuleBuffer was not called
InitInstantiate ==
    /\ build \in Builds
    /\ internalFFI = {}
    /\ buffer = 0
    /\ viewBuffer = NoView
    /\ memory = [i \in 1..MemSize |-> 0]
    /\ live = {}
    /\ pc = "new"
    /\ compiledIntent = <<>>
    /\ request = JUndefined
    /\ encoded = <<>>
    /\ capacity = 0
    /\ serializedObject = <<>>
    /\ requestPointer = NoPointer
    /\ responsePointer = NoPointer
    /\ response = JUndefined
    /\ outcome = NoOutcome
    /\ events = <<>>
    /\ doubleFree = FALSE
    /\ cycles = 0

\* fromWasmModuleBuffer(buffer): WebAssembly.instantiate rejects an image
\* that is not valid; otherwise the constructor keeps the exports of the
\* instance, whatever they are
fromWasmModuleBuffer ==
    /\ pc = "new"
    /\ \E module \in Modules :
          IF module.valid
          THEN internalFFI' = module.exports /\ pc' = "idle" /\ UNCHANGED outcome
          ELSE outcome' = Thrown("CompileError") /\ pc' = "failed" /\ UNCHANGED internalFFI
    /\ UNCHANGED <<build, buffer, viewBuffer, memory, live, compiledIntent, request,
                   encoded, capacity, serializedObject, requestPointer,
                   responsePointer, response, events, doubleFree, cycles>>

\* the export that the statement at step reads from internalFFI
ExportUsedAt(step) ==
    CASE step = "alloc" -> "toolkit_alloc"
      [] step \in {"write", "read"} -> "memory"
      [] step = "call" -> "decompile_unknown_transaction_intent"
      [] step \in {"free_request", "free_response"} -> "toolkit_free_c_string"

\* a statement reads an export that the instance does not have: undefined
\* is called, or a property of undefined is read, and a TypeError is thrown
MissingExport ==
    /\ pc \in {"alloc", "write", "call", "read", "free_request", "free_response"}
    /\ ExportUsedAt(pc) \notin internalFFI
    /\ Throw("TypeError")
    /\ UNCHANGED <<build, internalFFI, buffer, viewBuffer, memory, live,
                   compiledIntent, request, encoded, capacity, serializedObject,
                   requestPointer, responsePointer, response, events, doubleFree,
                   cycles>>

NextInstantiate ==
    \/ fromWasmModuleBuffer
    \/ Call(1)
    \/ ToolkitAllocReturns
    \/ WriteString
    \/ GuestCallReturns(ResponseTexts)
    \/ GuestCallTraps
    \/ ReadObject
    \/ DeallocateRequest
    \/ DeallocateResponse
    \/ Return
    \/ ExtractManifest
    \/ MissingExport

SpecInstantiate == InitInstantiate /\ [][NextInstantiate]_vars

-----------------------------------------------------------------------------
(* What the claims speak of.                                                *)

\* an event of kind e is in the current cycle's record
HasEvent(e) == \E i \in 1..Len(events) : events[i].e = e

\* the position of the first event of kind e, or 0
EventIndex(e) ==
    FirstTrue([i \in 1..Len(events) |-> events[i].e = e], 1, Len(events))

\* the number of calls of toolkit_free_c_string with pointer p in the cycle
FreesOf(p) ==
    Cardinality({i \in 1..Len(events) : events[i].e = "free" /\ events[i].p = p})

\* the bytes at the response pointer before the first zero byte
ResponseBytes ==
    LET n == findIndex(SubSeq(memory, responsePointer + 1, Len(memory)))
    IN  SubSeq(memory, responsePointer + 1, responsePointer + n)

\* the text read at the response pointer
ResponseText == readStringFromMemory(memory, responsePointer).val

\* bytes are UTF-8 exactly when decoding and encoding them gives them back
WellFormedUtf8(bytes) ==
    TextEncoderEncode(Flatten([i \in 1..Len(bytes) |-> Utf8Decode(bytes, i)])) = bytes

\* the candidate paths of the response, highest precedence first
CandidatePaths ==
    <<<<K_signed_intent, K_intent, K_manifest, K_instructions, K_value>>,
      <<K_intent, K_manifest, K_instructions, K_value>>,
      <<K_manifest, K_instructions, K_value>>>>

\* the field of x at the end of path; undefined when a field is missing
RECURSIVE FieldAt(_, _)
FieldAt(x, path) ==
    IF path = <<>> THEN x
    ELSE IF x.t # "object" THEN JUndefined
    ELSE LET at == {i \in 1..Len(x.v) : x.v[i].k = Head(path)}
         IN  IF at = {} THEN JUndefined
             ELSE FieldAt(x.v[CHOOSE i \in at : TRUE].val, Tail(path))

\* every intermediate field of path is present and not null
Resolves(x, path) ==
    \A n \in 1..(Len(path) - 1) :
        FieldAt(x, SubSeq(path, 1, n)).t \notin {"undefined", "null"}

\* the leaf of the first candidate path that resolves, or undefined
FirstResolving(x) ==
    IF Resolves(x, CandidatePaths[1]) THEN FieldAt(x, CandidatePaths[1])
    ELSE IF Resolves(x, CandidatePaths[2]) THEN FieldAt(x, CandidatePaths[2])
    ELSE IF Resolves(x, CandidatePaths[3]) THEN FieldAt(x, CandidatePaths[3])
    ELSE JUndefined

-----------------------------------------------------------------------------
(* The claims. *)

\* C1: a cycle that reached the decoding of the response, whether decoding
\* succeeded or failed, has called release exactly once with the request
\* pointer and exactly once with the response pointer when it ends.
C1_ExactlyOnceRelease ==
    (pc = "done" /\ HasEvent("read")) =>
        (FreesOf(requestPointer) = 1 /\ FreesOf(responsePointer) = 1)

\* C2: release is never called on a pointer that is not allocated, that is,
\* never twice on one pointer without an allocation of it in between,
\* whatever pointer the guest operation returns.
C2_NoDoubleRelease == ~doubleFree

\* C3: the events of a cycle follow one order: allocation, write, guest
\* call, its return, decoding, release of the request pointer, release of
\* the response pointer, return.
C3_FixedOrder ==
    LET order == <<"alloc", "write", "call", "returned", "read", "free", "free", "return">>
    IN  /\ Len(events) <= Len(order)
        /\ \A i \in 1..Len(events) : events[i].e = order[i]
        /\ \A i \in 1..Len(events) :
              /\ events[i].e \in {"write", "call"} => events[i].p = requestPointer
              /\ events[i].e \in {"returned", "read"} => events[i].p = responsePointer
              /\ events[i].e = "free" =>
                    events[i].p = (IF i = EventIndex("free") THEN requestPointer
                                   ELSE responsePointer)

\* a cycle has run to its return with two different pointers
C3_Witness ==
    /\ pc = "done"
    /\ outcome.kind = "return"
    /\ Len(events) = 8
    /\ requestPointer # responsePointer

\* C4: when a cycle that obtained a request pointer ends, on whatever path,
\* the request pointer has been released.
C4_RequestReleasedOnEveryExit ==
    (pc = "done" /\ requestPointer # NoPointer) => FreesOf(requestPointer) >= 1

\* C5: once callWasmFunction has returned, both pointers were released
\* before the return and the return is the last event of the cycle, also
\* when the extraction then finds nothing.
C5_ReleasedBeforeReturn ==
    HasEvent("return") =>
        /\ EventIndex("return") = Len(events)
        /\ \E i \in 1..(Len(events) - 1) :
              events[i].e = "free" /\ events[i].p = requestPointer
        /\ \E i \in 1..(Len(events) - 1) :
              events[i].e = "free" /\ events[i].p = responsePointer
        /\ pc \in {"extract", "done"}

\* a call has returned normally with nothing extracted
C5_Witness ==
    /\ pc = "done"
    /\ HasEvent("return")
    /\ outcome = Returned(JUndefined)
    /\ requestPointer # responsePointer

\* C6: when the bytes at the response pointer are not UTF-8 the call fails:
\* it returns nothing to the caller.
C6_IllFormedUtf8Fails ==
    (pc = "done" /\ HasEvent("read") /\ ~WellFormedUtf8(ResponseBytes)) =>
        outcome.kind = "throw"

\* C7: when the text read at the response pointer is not JSON (the empty
\* text included) the call ends with the parse error, never with a result.
C7_MalformedJsonIsError ==
    (/\ pc = "done"
     /\ HasEvent("read")
     /\ readStringFromMemory(memory, responsePointer).ok
     /\ (ResponseText \in MalformedTexts \/ ~deserializeString(ResponseText).ok)) =>
        outcome = Thrown("SyntaxError")

\* a call has ended with the parse error of the empty text
C7_Witness ==
    /\ pc = "done"
    /\ HasEvent("read")
    /\ readStringFromMemory(memory, responsePointer).ok
    /\ ResponseText = <<>>
    /\ outcome = Thrown("SyntaxError")

\* C8: when some candidate path resolves, the call returns the leaf of the
\* first candidate path whose every intermediate field is present and not
\* null, whatever the leaf is.
C8_FirstResolvingPathWins ==
    (/\ pc = "done"
     /\ HasEvent("return")
     /\ \E i \in 1..Len(CandidatePaths) : Resolves(response, CandidatePaths[i])) =>
        outcome = Returned(FirstResolving(response))

\* C9: a response that holds only the bare path, or only the intent path,
\* yields the text at that path.
C9_LowerPathsAreRead ==
    (pc = "done" /\ HasEvent("return")) =>
        /\ response = ManifestObject(JString(<<67>>)) =>
              outcome = Returned(JString(<<67>>))
        /\ response = JObject(<<Member(K_intent, ManifestObject(JString(<<66>>)))>>) =>
              outcome = Returned(JString(<<66>>))

\* C10: a decoded response in which no candidate path resolves yields
\* undefined, and no error.
C10_AbsentWhenNothingResolves ==
    (/\ pc = "done"
     /\ HasEvent("return")
     /\ \A i \in 1..Len(CandidatePaths) : ~Resolves(response, CandidatePaths[i])) =>
        outcome = Returned(JUndefined)


-----------------------------------------------------------------------------
\* the number of events of kind e in the current cycle's record
CountOf(e) == Cardinality({i \in 1..Len(events) : events[i].e = e})

\* C11: manifestStringFromCompiledIntent returns a string or undefined and
\* never a number, a boolean, null, an object or an array, whatever the
\* decoded response is.
C11_ResultIsStringOrAbsent ==
    outcome.kind = "return" => outcome.val.t \in {"string", "undefined"}

\* C12: a cycle in which callWasmFunction returns has called the guest
\* operation once, toolkit_alloc once and toolkit_free_c_string twice.
C12_CallCounts ==
    HasEvent("return") =>
        /\ CountOf("call") = 1
        /\ CountOf("returned") = 1
        /\ CountOf("alloc") = 1
        /\ CountOf("free") = 2

\* a second cycle has returned
C12_Witness ==
    /\ pc = "done"
    /\ HasEvent("return")
    /\ cycles = 2
    /\ responsePointer # requestPointer
    /\ CountOf("free") = 2

\* the guest operation was called and did not return
GuestTrapped == HasEvent("call") /\ ~HasEvent("returned")

\* the guest operation returned bytes that are no UTF-8 text or no JSON text
GuestReturnedMalformed ==
    /\ HasEvent("read")
    /\ LET read == readStringFromMemory(memory, responsePointer) IN
       \/ ~read.ok
       \/ ~WellFormedUtf8(ResponseBytes)
       \/ ~deserializeString(read.val).ok

\* C13: a cycle whose guest operation trapped or returned malformed data
\* has called the guest operation at most once and ends with the failure
\* thrown to the caller.
C13_FailureSurfacedWithoutRetry ==
    (pc = "done" /\ (GuestTrapped \/ GuestReturnedMalformed)) =>
        /\ CountOf("call") <= 1
        /\ outcome.kind = "throw"

\* toolkit_alloc was called in the current cycle and trapped
AllocFaulted ==
    \E i \in 1..Len(events) : events[i] = Event("alloc", NoPointer)

\* C14: when toolkit_alloc traps, the trap ends the cycle: it is thrown to
\* the caller, and the cycle holds no second call of toolkit_alloc, no write
\* to the memory, no call of the guest operation and no call of
\* toolkit_free_c_string.
C14_AllocFaultAborts ==
    AllocFaulted =>
        /\ events = <<Event("alloc", NoPointer)>>
        /\ requestPointer = NoPointer
        /\ pc = "done"
        /\ outcome = Thrown("RuntimeError")

\* a second cycle found the guest out of space
C14_Witness ==
    /\ AllocFaulted
    /\ pc = "done"
    /\ cycles = 2
    /\ live = Slots

\* some string of the value, a key or a text, holds the character NUL
RECURSIVE HasNul(_)
HasNul(value) ==
    CASE value.t = "string" -> \E i \in 1..Len(value.v) : value.v[i] = 0
      [] value.t = "array" -> \E i \in 1..Len(value.v) : HasNul(value.v[i])
      [] value.t = "object" ->
            \E i \in 1..Len(value.v) :
                HasNul(JString(value.v[i].k)) \/ HasNul(value.v[i].val)
      [] OTHER -> FALSE

\* readObjectFromMemory was applied to the pointer of writeObjectToMemory
ReadBack == pc = "done" /\ events[Len(events)] = Event("read", requestPointer)

\* C15: for an object v without NUL in its strings, readObjectFromMemory of
\* the pointer that writeObjectToMemory(v) returned, with no guest call
\* between the two, returns a value equal to v.
C15_RoundTrip ==
    (ReadBack /\ ~HasNul(request)) => outcome = Returned(request)

\* the round trip of a string that needs an escape, over earlier content
C15_Witness ==
    /\ ReadBack
    /\ request = JObject(<<Member(<<107>>, JString(<<34, 92>>))>>)
    /\ outcome = Returned(request)
    /\ memory[MemSize] # 0

\* the n bytes from offset p on are not zero and the byte after them is
ZeroTerminatedAt(mem, p, n) ==
    /\ p + n + 1 <= Len(mem)
    /\ mem[p + n + 1] = 0
    /\ \A k \in 1..n : mem[p + k] # 0

\* mem with every byte after offset p changed
ChangedAfter(mem, p) ==
    [i \in 1..Len(mem) |-> IF i > p + 1 THEN 255 - mem[i] ELSE mem[i]]

\* C16: when the memory at the pointer holds n bytes that are not zero and
\* then a zero byte, readStringFromMemory returns the text decoded from those
\* n bytes, without the zero byte, and returns the same when the bytes after
\* the zero byte are different; for n = 0 it returns the empty string.
C16_ReadStopsAtFirstZero ==
    HasEvent("read") =>
        \A n \in 0..(Len(memory) - responsePointer - 1) :
            ZeroTerminatedAt(memory, responsePointer, n) =>
                /\ serializedObject =
                      TextDecoderDecode(SubSeq(memory, responsePointer + 1, responsePointer + n))
                /\ readStringFromMemory(ChangedAfter(memory, responsePointer + n),
                                        responsePointer) = Ok(serializedObject)
                /\ (n = 0 => serializedObject = <<>>)

\* an empty response was read where bytes of the request follow the zero
C16_Witness ==
    /\ HasEvent("read")
    /\ memory[responsePointer + 1] = 0
    /\ memory[responsePointer + 2] # 0
    /\ serializedObject = <<>>
    /\ outcome = Thrown("SyntaxError")

\* the number of bytes of str in UTF-8: one for each code unit, one more
\* from U+0080 on, and one more from U+0800 on unless the code unit is half
\* of a surrogate pair
Utf8Length(str) ==
    LET paired(i) ==
            \/ IsHighSurrogate(str[i]) /\ i < Len(str) /\ IsLowSurrogate(str[i + 1])
            \/ IsLowSurrogate(str[i]) /\ i > 1 /\ IsHighSurrogate(str[i - 1])
    IN  Len(str)
        + Cardinality({i \in 1..Len(str) : str[i] >= 128})
        + Cardinality({i \in 1..Len(str) : str[i] >= 2048 /\ ~paired(i)})

\* writeStringToMemory has returned and nothing ran since
WriteStringReturned ==
    pc = After("write") /\ events[Len(events)] = Event("write", requestPointer)

\* C17: writeStringToMemory(str) asks toolkit_alloc for the number of bytes
\* of str in UTF-8 plus one, returns the pointer toolkit_alloc returned, and
\* leaves at that pointer the bytes of str in UTF-8 followed by a zero byte.
C17_WriteString ==
    WriteStringReturned =>
        LET str == serializeObject(request)
            bytes == TextEncoderEncode(str)
        IN  /\ capacity = Utf8Length(str) + 1
            /\ Len(bytes) = Utf8Length(str)
            /\ events[1] = Event("alloc", requestPointer)
            /\ SubSeq(memory, requestPointer + 1, requestPointer + capacity)
                  = Append(bytes, 0)

\* a text with characters of two and three bytes was written over memory
\* that held other bytes
C17_Witness ==
    /\ WriteStringReturned
    /\ request = JObject(<<Member(<<107>>, JString(<<233, 8364>>))>>)
    /\ capacity > Len(serializeObject(request)) + 1
    /\ memory[MemSize] # 0

\* c is a digit or one of a to f
IsLowerHex(c) == (c >= 48 /\ c <= 57) \/ (c >= 97 /\ c <= 102)

\* hex is the text of bytes in hexadecimal: two digits for each byte, the
\* high one first, in the order of the bytes
IsLowerHexOf(hex, bytes) ==
    /\ Len(hex) = 2 * Len(bytes)
    /\ \A i \in 1..Len(hex) : IsLowerHex(hex[i])
    /\ \A i \in 1..Len(bytes) :
          HexVal(hex[2 * i - 1]) * 16 + HexVal(hex[2 * i]) = bytes[i]

\* the keys of an object
KeysOf(object) == {object.v[i].k : i \in 1..Len(object.v)}

\* C18: when the guest operation is called, the memory at the request
\* pointer holds an object with the two keys compiled_unknown_intent and
\* manifest_instructions_output_format and no other; the first is the input
\* bytes in lowercase hexadecimal, two digits a byte in order, and the second
\* is the string "String".
C18_RequestFormat ==
    pc = "call" =>
        LET sent == readObjectFromMemory(memory, requestPointer) IN
        /\ sent.ok
        /\ sent.val = request
        /\ sent.val.t = "object"
        /\ Len(sent.val.v) = 2
        /\ KeysOf(sent.val) = {K_compiled_unknown_intent, K_manifest_instructions_output_format}
        /\ Lookup(sent.val.v, K_compiled_unknown_intent).t = "string"
        /\ IsLowerHexOf(Lookup(sent.val.v, K_compiled_unknown_intent).v, compiledIntent)
        /\ Lookup(sent.val.v, K_manifest_instructions_output_format) = JString(S_String)

\* the guest operation is about to be called with the request of an input
\* of three bytes
C18_Witness ==
    /\ pc = "call"
    /\ Len(compiledIntent) = 3
    /\ readObjectFromMemory(memory, requestPointer) = Ok(request)
    /\ Lookup(request.v, K_compiled_unknown_intent) = JString(<<48, 57, 102, 102, 97, 48>>)

\* a call of manifestStringFromCompiledIntent has begun and has neither
\* returned nor thrown
InFlight == cycles > 0 /\ outcome.kind = "none"

Extracted(b, resp) ==
    LET r == Extract(b, resp) IN IF r.ok THEN Returned(r.val) ELSE Thrown(r.error)

\* C20: the step that computes the manifest text from the decoded response
\* calls no guest function (the record of guest calls and the allocator's
\* state stay as they are), leaves the memory and the response unchanged,
\* and its result is decided by the response alone.
C20_ExtractionIsPure ==
    /\ []((pc = "done" /\ HasEvent("return")) => outcome = Extracted(build, response))
    /\ [][pc = "extract" =>
            /\ memory' = memory
            /\ live' = live
            /\ events' = events
            /\ doubleFree' = doubleFree
            /\ response' = response
            /\ outcome' = Extracted(build, response)]_vars

\* the text of the first path was extracted after callWasmFunction returned
C20_Witness ==
    /\ pc = "done"
    /\ events[Len(events)] = Event("return", NoPointer)
    /\ outcome = Returned(JString(<<65>>))
    /\ responsePointer \notin live

\* C21: fromWasmModuleBuffer fails when the image is not a valid module and
\* when an export the class uses is missing: an object of the class exists
\* only over an instance that has every export.
C21_NoBridgeOverIncompleteExports ==
    /\ pc = "failed" => outcome.kind = "throw"
    /\ pc \notin {"new", "failed"} => internalFFI = Exports

\* C22: the bytes writeObjectToMemory writes hold one zero byte, the last
\* one, also for an object whose strings hold NUL, which JSON.stringify
\* escapes; so the first zero byte from the request pointer on ends exactly
\* the bytes that were asked of toolkit_alloc.
C22_OneZeroByte ==
    WriteStringReturned =>
        /\ encoded[Len(encoded)] = 0
        /\ Cardinality({i \in 1..Len(encoded) : encoded[i] = 0}) = 1
        /\ capacity = Len(encoded)
        /\ ZeroTerminatedAt(memory, requestPointer, capacity - 1)

\* an object with NUL in a string was written over memory without zeros
C22_Witness ==
    /\ WriteStringReturned
    /\ request = JObject(<<Member(<<107>>, JString(<<97, 0, 98>>))>>)
    /\ HasNul(request)
    /\ memory[requestPointer + capacity + 1] # 0

\* the step appends to the record one access of the host to the memory
AccessOfMemory ==
    /\ Len(events') = Len(events) + 1
    /\ events'[Len(events')].e \in {"read", "write"}

\* C23: the host reads and writes the memory only through a pointer that is
\* allocated at that moment: one handed out by toolkit_alloc or by the guest
\* operation and not released since.  It holds over behaviours of several
\* cycles, in which the guest hands out released addresses again.
C23_NoUseAfterRelease ==
    [][AccessOfMemory => events'[Len(events')].p \in live]_vars

\* the second cycle has read its response, both pointers being addresses
\* that the first cycle released
C23_Witness ==
    /\ cycles = 2
    /\ pc = "free_request"
    /\ HasEvent("read")
    /\ requestPointer # responsePointer
    /\ live = {requestPointer, responsePointer}
    /\ live = Slots

\* offset i - 1 of the memory is outside the n bytes that start at pointer p
OutsideRegion(i, p, n) == i <= p \/ i > p + n

\* C24: writeStringToMemory changes no byte of the memory outside the bytes
\* from the pointer toolkit_alloc returned up to the terminator, and does not
\* change the size of the memory.
C24_WriteFrame ==
    [][pc = "write" =>
          /\ Len(memory') = Len(memory)
          /\ \A i \in 1..Len(memory) :
                OutsideRegion(i, requestPointer, capacity) => memory'[i] = memory[i]]_vars

\* the first write into a memory without zeros: every byte outside the
\* region is still not zero
C24_Witness ==
    /\ WriteStringReturned
    /\ cycles = 1
    /\ capacity = Len(encoded)
    /\ \A i \in 1..Len(memory) :
          OutsideRegion(i, requestPointer, capacity) => memory[i] # 0

\* no byte of the memory from offset p to its end is zero
NoZeroFrom(mem, p) == \A i \in (p + 1)..Len(mem) : mem[i] # 0

\* C25: when no zero byte follows the pointer up to the end of the memory,
\* readStringFromMemory returns no string: it throws, nothing is decoded,
\* and the error ends the call.
C25_NoTerminatorFails ==
    (HasEvent("read") /\ NoZeroFrom(memory, responsePointer)) =>
        /\ ~readStringFromMemory(memory, responsePointer).ok
        /\ serializedObject = <<>>
        /\ response = JUndefined
        /\ pc = "done"
        /\ outcome = Thrown("RangeError")

\* the guest returned a pointer to the last two bytes of the memory, neither
\* of them zero, and the read of it threw
C25_Witness ==
    /\ HasEvent("read")
    /\ responsePointer = Len(memory) - 2
    /\ memory[Len(memory) - 1] # 0
    /\ memory[Len(memory)] # 0
    /\ outcome = Thrown("RangeError")

\* C26: when toolkit_alloc, the guest operation and toolkit_free_c_string
\* each return or trap, a call of manifestStringFromCompiledIntent that has
\* begun comes to its end, by a return or by an error; and the host leaves
\* the call of the guest operation only when the guest returned or trapped:
\* it sets no limit of time to it.
C26_CycleTerminates ==
    /\ InFlight ~> (pc = "done" /\ ~InFlight)
    /\ [][(pc = "call" /\ pc' # "call") => Len(events') > Len(events)]_vars

\* the last cycle has returned with nothing left allocated
C26_Witness ==
    /\ pc = "done"
    /\ cycles = MaxCycles
    /\ outcome.kind = "return"
    /\ HasEvent("return")
    /\ live = {}

\* C27: every read and every write of the memory goes through a view of the
\* buffer the memory has at that moment.  writeStringToMemory creates its
\* view after toolkit_alloc has returned, readStringFromMemory calls no
\* guest function between creating its view and reading, and so no access
\* goes through a view created before a guest call that grew the memory.
C27_FreshViews ==
    [][AccessOfMemory => (viewBuffer' = buffer' /\ buffer' = buffer)]_vars

\* toolkit_alloc grew the memory and writeStringToMemory wrote the request
\* into the grown memory through a view of the new buffer
C27_Witness ==
    /\ WriteStringReturned
    /\ buffer >= 1
    /\ events[Len(events) - 1].e = "alloc"
    /\ viewBuffer = buffer
    /\ Len(memory) = MemSize + PageSize * buffer
    /\ \A i \in 1..Len(encoded) : memory[requestPointer + i] = encoded[i]
    /\ outcome.kind = "none"
=============================================================================
